---- MODULE Spec2Model ----
(***************************************************************************)
(* A model of bin/optimal_transport.py (the script that computes transport *)
(* maps between consecutive time points, summarises them by cluster and    *)
(* writes the audit, per-pair and summary files) and of                    *)
(* wot/graphics/plot.py: plot_ot_validation_ratio.                         *)
(*                                                                         *)
(* The script is a sequential program; pc is its position.  The callback   *)
(* is one atomic step of the driver.  Code of the wot.ot package (the      *)
(* driver, the summariser, the weight aggregator and the combiner) is not  *)
(* part of the two source files and is modelled from its specification.    *)
(***************************************************************************)
EXTENDS Integers, Sequences, FiniteSets, TLC

\* ------------------------------------------------------------------ bounds
NumTimes == 3        \* time points of the series (NumTimes - 1 pairs)
CellsPerTime == 2    \* cells observed at each time point
MaxAbsent == 1       \* expression-table cells that may be missing from the cluster file
MaxPoints == 2       \* rows of each series of the validation data frame

\* ------------------------------------------------------------ input domains
NumPairs == NumTimes - 1
Times == [i \in 1..NumTimes |-> i - 1]
ClusterVals == {1, 2}
\* pandas' missing value, the cluster of a cell the right join finds no row for
NaN == 0
\* a cell id that is in no time point of the expression table
ExtraCell == NumTimes * CellsPerTime + 1
EpsilonVals == {1, 2}
SolverConfig == [epsilon |-> 1, lambda1 |-> 1, lambda2 |-> 1]
SolverModes == {"fixed", "floating_epsilon"}
MidVals == {1, 2, 3}

VARIABLES
    args,                    \* the parsed command line
    cluster_file,            \* the content of the file args.clusters names
    pc,                      \* position of the script
    params_writer,           \* "None", "open" or "closed"
    params_file,             \* the lines written to prefix_params.txt
    writer_log,              \* the calls made on params_writer, in order
    clusters,                \* the aligned cluster table
    grouped_by_cluster,      \* cluster id -> set of member cells
    cluster_ids,
    total_cluster_size,      \* <<>> is None, <<w>> is the value w
    cluster_transport_maps,
    column_cell_ids_by_time,
    all_cell_ids,
    pair,                    \* the driver's next pair of time points
    failures,                \* pairs the driver reported as failed
    invocations,             \* the cb_args of every callback invocation, in order
    csv_files,               \* every to_csv call: name, labels and values, in order
    stdout,
    weights_calls,           \* the calls of wot.ot.get_weights
    combiner_calls,          \* the calls of wot.ot.transport_maps_by_time
    df,                      \* plot_ot_validation_ratio's data frame
    plot_pc,
    plot_error,
    ratios_computed,
    figure_saved

scriptVars == <<args, cluster_file, pc, params_writer, params_file, writer_log, clusters,
                grouped_by_cluster, cluster_ids, total_cluster_size,
                cluster_transport_maps, column_cell_ids_by_time, all_cell_ids, pair,
                failures, invocations, csv_files, stdout, weights_calls, combiner_calls>>
plotVars == <<df, plot_pc, plot_error, ratios_computed, figure_saved>>
vars == <<scriptVars, plotVars>>

\* ----------------------------------------------------------------- helpers
Range(s) == {s[i] : i \in DOMAIN s}

RECURSIVE SumOver(_, _)
SumOver(S, f) ==
    IF S = {} THEN 0
    ELSE LET x == CHOOSE y \in S : TRUE
         IN  f[x] + SumOver(S \ {x}, f)

RECURSIVE SortedSeq(_)
SortedSeq(S) ==
    IF S = {} THEN <<>>
    ELSE LET m == CHOOSE x \in S : \A y \in S : x <= y
         IN  <<m>> \o SortedSeq(S \ {m})

IndexOf(s, x) == CHOOSE i \in DOMAIN s : s[i] = x

\* Python's `a is 'literal'`: object identity.  A string object is the literal's
\* object only if it has the literal's value and is the interned object itself
\* (a default taken from a literal is; a string built from the command line is not).
Is(obj, literal) == obj.value = literal /\ obj.interned

\* ------------------------------------------------- the expression table
\* ot_helper.gene_expression.index: every cell of every time point
GeneExpressionIndex == [c \in 1..(NumTimes * CellsPerTime) |-> c]
GeneCells == Range(GeneExpressionIndex)
\* the index of the distribution of time point number i
CellsAt(i) == [j \in 1..CellsPerTime |-> (i - 1) * CellsPerTime + j]

\* The cluster files of the model: every cell of position j in its time point is
\* given cluster f[j]; the first m <= MaxAbsent cells of one time point may have no
\* row; and the file may hold a row for a cell the expression table does not have.
AbsentSets ==
    {{}} \cup {{CellsAt(t)[j] : j \in {n \in 1..CellsPerTime : n <= m}} :
                   t \in 1..NumTimes, m \in 1..MaxAbsent}
ClusterFiles ==
    { [c \in (GeneCells \ absent) \cup extra |->
          f[((c - 1) % CellsPerTime) + 1]] :
        f \in [1..CellsPerTime -> ClusterVals],
        absent \in AbsentSets,
        extra \in {{}, {ExtraCell}} }

\* ------------------------------------------------------------- data frames
\* pd.DataFrame(values, index=..., columns=...): the positional matrix, labelled
DataFrame(values, index, columns) ==
    [index |-> index, columns |-> columns,
     values |-> [r \in Range(index), c \in Range(columns) |->
                    values[IndexOf(index, r), IndexOf(columns, c)]]]

\* clusters.align(gene_expression, join='right', axis=0)[0]: the table reindexed
\* to the right-hand index; a label the table has no row for gets NaN
AlignInner(table, index) ==
    [index |-> SelectSeq(index, LAMBDA c : c \in DOMAIN table),
     cluster |-> [c \in Range(index) \cap DOMAIN table |-> table[c]]]
AlignRight(table, index) ==
    [index |-> index,
     cluster |-> [c \in Range(index) |-> IF c \in DOMAIN table THEN table[c] ELSE NaN]]

\* clusters.groupby(column).groups: key -> labels of the rows with that key; rows
\* whose key is missing belong to no group
GroupByKeepingNaN(table) ==
    [k \in {table.cluster[c] : c \in DOMAIN table.cluster} |->
        {c \in DOMAIN table.cluster : table.cluster[c] = k}]
GroupBy(table) ==
    [k \in {table.cluster[c] : c \in DOMAIN table.cluster} \ {NaN} |->
        {c \in DOMAIN table.cluster : table.cluster[c] = k}]

\* list(grouped_by_cluster.groups.keys())
GroupKeys(groups) == SortedSeq(DOMAIN groups)

\* --------------------------------------------------- wot.ot (from its spec)
\* get_column_weights: the number of the given cells that belong to each cluster
get_column_weights(ids, groups, cids) ==
    [i \in 1..Len(cids) |-> Cardinality(groups[cids[i]] \cap ids)]

\* transport_map_by_cluster: the mass summed within each (source cluster,
\* destination cluster) bucket; both axes are the full cluster id list
transport_map_by_cluster(tm, groups, cids) ==
    [index |-> cids, columns |-> cids,
     values |-> [a \in Range(cids), b \in Range(cids) |->
                    SumOver((groups[a] \cap Range(tm.index)) \X
                            (groups[b] \cap Range(tm.columns)), tm.values)]]

\* get_weights: per pair and cluster, the cluster's members among that pair's
\* column cells; and the cluster sizes over all cells seen
get_weights(cells, columns_by_time, groups, cids) ==
    [cluster_weights_by_time |->
        [t \in 1..Len(columns_by_time) |->
            get_column_weights(Range(columns_by_time[t]), groups, cids)],
     cluster_size |-> get_column_weights(cells, groups, cids)]

\* transport_maps_by_time: each pair's cluster map scaled by its pair's cluster
\* weight, accumulated, and normalised by the total weight (entries are kept as
\* <<numerator, denominator>>)
transport_maps_by_time(maps, weights) ==
    LET cids == IF maps = <<>> THEN <<>> ELSE maps[1].index
        T == {<<t, 0>> : t \in 1..Len(maps)}
    IN  [index |-> cids, columns |-> cids,
         values |-> [a \in Range(cids), b \in Range(cids) |->
            << SumOver(T, [x \in T |->
                   weights[x[1]][IndexOf(cids, a)] * maps[x[1]].values[a, b]]),
               SumOver(T, [x \in T |-> weights[x[1]][IndexOf(cids, a)]]) >>]]

\* the solver's result for a pair (from its spec): one winning map, here a
\* uniform coupling of mass epsilon, with the accepted parameters
SolverResult(epsilon) ==
    [transport |-> [i \in 1..CellsPerTime, j \in 1..CellsPerTime |-> epsilon],
     epsilon |-> epsilon,
     lambda1 |-> SolverConfig.lambda1,
     lambda2 |-> SolverConfig.lambda2]

\* the accepted epsilon: the configured one in fixed mode, searched otherwise
AcceptedEpsilons ==
    IF args.solver.value = "floating_epsilon" THEN EpsilonVals
    ELSE {SolverConfig.epsilon}

\* the record compute_transport_maps hands to the callback for pair number i
CbArgs(i, epsilon) ==
    [t0 |-> Times[i], t1 |-> Times[i + 1],
     p0 |-> [index |-> CellsAt(i)], p1 |-> [index |-> CellsAt(i + 1)],
     result |-> SolverResult(epsilon)]
\* ------------------------------------------------------ optimal_transport.py
SolverTestAtOpen == Is(args.solver, "floating_epsilon")
SolverTestInCallbackByValue == args.solver.value = "floating_epsilon"
SolverTestInCallback == Is(args.solver, "floating_epsilon")
ClustersGivenAtLoad == args.clusters # "None"
ClustersGivenInCallback == args.clusters # "None"
SummaryAlways == TRUE
ClustersGivenAtSummary == args.clusters # "None"

Gz == IF args.compress THEN <<".gz">> ELSE <<>>
ParamsFileName == <<args.prefix, "_params.txt">>
ParamsHeader == <<"t1", "t2", "epsilon", "lambda1", "lambda2">>
ParamsRow(cb_args) ==
    <<ToString(cb_args.t0), ToString(cb_args.t1), ToString(cb_args.result.epsilon),
      ToString(cb_args.result.lambda1), ToString(cb_args.result.lambda2)>>

CellFileNameAlwaysGz(cb_args) ==
    <<args.prefix, "_", ToString(cb_args.t0), "_", ToString(cb_args.t1), ".txt", ".gz">>
CellFileName(cb_args) ==
    <<args.prefix, "_", ToString(cb_args.t0), "_", ToString(cb_args.t1), ".txt">> \o Gz
ClusterFileName(cb_args) ==
    <<args.prefix, "_cluster_", ToString(cb_args.t0), "_", ToString(cb_args.t1), ".txt">>
        \o Gz
SummaryFileName == <<args.prefix, "_cluster_summary.txt">> \o Gz

\* frame.to_csv(name, index_label=label, sep='\t', ...)
ToCsv(name, label, frame) ==
    [name |-> name, index_label |-> label, index |-> frame.index,
     columns |-> frame.columns, values |-> frame.values]

TransportMap(cb_args) ==
    DataFrame(cb_args.result.transport, cb_args.p0.index, cb_args.p1.index)

UpdateAllCellIds(cells, transport_map) ==
    (cells \cup Range(transport_map.columns)) \cup Range(transport_map.index)

AppendRowIds(ids_by_time, transport_map) == Append(ids_by_time, transport_map.index)
AppendColumnIds(ids_by_time, transport_map) == Append(ids_by_time, transport_map.columns)

ClusterDetailFilesAlways(cb_args, cluster_transport_map) ==
    <<ToCsv(ClusterFileName(cb_args), "id", cluster_transport_map)>>
ClusterDetailFiles(cb_args, cluster_transport_map) ==
    IF args.cluster_details
    THEN <<ToCsv(ClusterFileName(cb_args), "id", cluster_transport_map)>>
    ELSE <<>>

ClusterPrints ==
    (IF args.verbose THEN <<"Summarized transport map by cluster">> ELSE <<>>)
    \o (IF args.cluster_details /\ args.verbose
        THEN <<"Saving cluster transport map">> ELSE <<>>)

CombinerArgsWithSize(maps, weights) ==
    [names |-> <<"cluster_transport_maps", "cluster_weights_by_time",
                 "total_cluster_size">>,
     maps |-> maps, weights |-> weights]
CombinerArgs(maps, weights) ==
    [names |-> <<"cluster_transport_maps", "cluster_weights_by_time">>,
     maps |-> maps, weights |-> weights]

ScriptInit ==
    /\ args \in [solver : {[value |-> m, interned |-> b] :
                              m \in SolverModes, b \in BOOLEAN}
                            \ {[value |-> "fixed", interned |-> TRUE]},
                 compress : BOOLEAN, cluster_details : BOOLEAN, verbose : BOOLEAN,
                 clusters : {"None", "file"}, prefix : {"out"}]
    /\ cluster_file \in IF args.clusters = "None" THEN {<<>>} ELSE ClusterFiles
    /\ pc = "open_params"
    /\ params_writer = "None"
    /\ params_file = <<>>
    /\ writer_log = <<>>
    /\ clusters = [index |-> <<>>, cluster |-> <<>>]
    /\ grouped_by_cluster = <<>>
    /\ cluster_ids = <<>>
    /\ total_cluster_size = <<>>
    /\ cluster_transport_maps = <<>>
    /\ column_cell_ids_by_time = <<>>
    /\ all_cell_ids = {}
    /\ pair = 1
    /\ failures = 0
    /\ invocations = <<>>
    /\ csv_files = <<>>
    /\ stdout = <<>>
    /\ weights_calls = <<>>
    /\ combiner_calls = <<>>

PlotIdle ==
    /\ df = <<>>
    /\ plot_pc = "idle"
    /\ plot_error = "none"
    /\ ratios_computed = FALSE
    /\ figure_saved = FALSE

Init == ScriptInit /\ PlotIdle

\* lines 15-19
OpenParams ==
    /\ pc = "open_params"
    /\ pc' = "load_clusters"
    /\ IF SolverTestAtOpen
       THEN /\ params_writer' = "open"
            /\ params_file' = <<ParamsHeader>>
            /\ writer_log' = <<"open", "write">>
       ELSE UNCHANGED <<params_writer, params_file, writer_log>>
    /\ UNCHANGED <<args, cluster_file, clusters, grouped_by_cluster, cluster_ids,
                   total_cluster_size, cluster_transport_maps, column_cell_ids_by_time,
                   all_cell_ids, pair, failures, invocations, csv_files, stdout,
                   weights_calls, combiner_calls, plotVars>>

\* lines 21-37
LoadClusters ==
    /\ pc = "load_clusters"
    /\ pc' = "driver"
    /\ IF ClustersGivenAtLoad
       THEN LET aligned == AlignRight(cluster_file, GeneExpressionIndex)
                groups == GroupBy(aligned)
                ids == GroupKeys(groups)
            IN  /\ clusters' = aligned
                /\ grouped_by_cluster' = groups
                /\ cluster_ids' = ids
                /\ total_cluster_size' =
                       <<get_column_weights(Range(aligned.index), groups, ids)>>
       ELSE UNCHANGED <<clusters, grouped_by_cluster, cluster_ids, total_cluster_size>>
    /\ UNCHANGED <<args, cluster_file, params_writer, params_file, writer_log,
                   cluster_transport_maps, column_cell_ids_by_time, all_cell_ids, pair,
                   failures, invocations, csv_files, stdout, weights_calls,
                   combiner_calls, plotVars>>

\* lines 40-78: one invocation of callback.  A write to a writer that is None or
\* closed raises, and the exception ends the run.
Callback(cb_args) ==
    LET result == cb_args.result
        transport_map == TransportMap(cb_args)
        cluster_transport_map ==
            transport_map_by_cluster(transport_map, grouped_by_cluster, cluster_ids)
    IN  /\ invocations' = Append(invocations, cb_args)
        /\ IF SolverTestInCallback /\ params_writer # "open"
           THEN /\ pc' = "crashed"
                /\ UNCHANGED <<params_file, writer_log, cluster_transport_maps,
                               column_cell_ids_by_time, all_cell_ids, csv_files, stdout>>
           ELSE /\ pc' = pc
                /\ IF SolverTestInCallback
                   THEN /\ params_file' = Append(params_file, ParamsRow(cb_args))
                        /\ writer_log' = Append(writer_log, "write")
                   ELSE UNCHANGED <<params_file, writer_log>>
                /\ IF ClustersGivenInCallback
                   THEN /\ all_cell_ids' = UpdateAllCellIds(all_cell_ids, transport_map)
                        /\ column_cell_ids_by_time' =
                               AppendColumnIds(column_cell_ids_by_time, transport_map)
                        /\ cluster_transport_maps' =
                               Append(cluster_transport_maps, cluster_transport_map)
                        /\ csv_files' =
                               (csv_files
                                \o ClusterDetailFiles(cb_args, cluster_transport_map))
                               \o <<ToCsv(CellFileName(cb_args), "id", transport_map)>>
                        /\ stdout' = (stdout \o ClusterPrints)
                               \o (IF args.verbose THEN <<"Saving transport map">>
                                   ELSE <<>>)
                   ELSE /\ UNCHANGED <<all_cell_ids, column_cell_ids_by_time,
                                       cluster_transport_maps>>
                        /\ csv_files' = Append(csv_files,
                               ToCsv(CellFileName(cb_args), "id", transport_map))
                        /\ stdout' = stdout
                               \o (IF args.verbose THEN <<"Saving transport map">>
                                   ELSE <<>>)
        /\ UNCHANGED <<args, cluster_file, params_writer, clusters, grouped_by_cluster,
                       cluster_ids, total_cluster_size, weights_calls, combiner_calls,
                       plotVars>>

\* line 81, compute_transport_maps: the pairs in sequence, the callback invoked
\* synchronously with the pair's single winning map
DriverCallback ==
    /\ pc = "driver"
    /\ pair <= NumPairs
    /\ pair' = pair + 1
    /\ failures' = failures
    /\ \E epsilon \in AcceptedEpsilons : Callback(CbArgs(pair, epsilon))

\* the adaptive search exhausts its retry budget: the failure is reported, no
\* callback is made for the pair and the next pair is processed
DriverFail ==
    /\ pc = "driver"
    /\ pair <= NumPairs
    /\ args.solver.value = "floating_epsilon"
    /\ pair' = pair + 1
    /\ failures' = failures + 1
    /\ UNCHANGED <<args, cluster_file, pc, params_writer, params_file, writer_log,
                   clusters, grouped_by_cluster, cluster_ids, total_cluster_size,
                   cluster_transport_maps, column_cell_ids_by_time, all_cell_ids,
                   invocations, csv_files, stdout, weights_calls, combiner_calls,
                   plotVars>>

DriverReturn ==
    /\ pc = "driver"
    /\ pair > NumPairs
    /\ pc' = "close_params"
    /\ UNCHANGED <<args, cluster_file, params_writer, params_file, writer_log,
                   clusters, grouped_by_cluster, cluster_ids, total_cluster_size,
                   cluster_transport_maps, column_cell_ids_by_time, all_cell_ids, pair,
                   failures, invocations, csv_files, stdout, weights_calls,
                   combiner_calls, plotVars>>

\* lines 83-84
CloseParams ==
    /\ pc = "close_params"
    /\ pc' = "summary"
    /\ IF params_writer # "None"
       THEN /\ params_writer' = "closed"
            /\ writer_log' = Append(writer_log, "close")
       ELSE UNCHANGED <<params_writer, writer_log>>
    /\ UNCHANGED <<args, cluster_file, params_file, clusters, grouped_by_cluster,
                   cluster_ids, total_cluster_size, cluster_transport_maps,
                   column_cell_ids_by_time, all_cell_ids, pair, failures, invocations,
                   csv_files, stdout, weights_calls, combiner_calls, plotVars>>

\* lines 86-101
SaveSummary ==
    /\ pc = "summary"
    /\ pc' = "done"
    /\ IF ClustersGivenAtSummary
       THEN LET weights == get_weights(all_cell_ids, column_cell_ids_by_time,
                                       grouped_by_cluster, cluster_ids)
                cluster_weights_by_time == weights.cluster_weights_by_time
                combined_cluster_map ==
                    transport_maps_by_time(cluster_transport_maps,
                                           cluster_weights_by_time)
            IN  /\ stdout' = stdout \o (IF args.verbose
                                        THEN <<"Saving summarized transport map">>
                                        ELSE <<>>)
                /\ weights_calls' = Append(weights_calls,
                       [all_cell_ids |-> all_cell_ids,
                        column_cell_ids_by_time |-> column_cell_ids_by_time,
                        result |-> weights])
                /\ combiner_calls' = Append(combiner_calls,
                       CombinerArgs(cluster_transport_maps, cluster_weights_by_time))
                /\ csv_files' = Append(csv_files,
                       ToCsv(SummaryFileName, "id", combined_cluster_map))
       ELSE UNCHANGED <<stdout, weights_calls, combiner_calls, csv_files>>
    /\ UNCHANGED <<args, cluster_file, params_writer, params_file, writer_log,
                   clusters, grouped_by_cluster, cluster_ids, total_cluster_size,
                   cluster_transport_maps, column_cell_ids_by_time, all_cell_ids, pair,
                   failures, invocations, plotVars>>

Next ==
    \/ OpenParams
    \/ LoadClusters
    \/ DriverCallback
    \/ DriverFail
    \/ DriverReturn
    \/ CloseParams
    \/ SaveSummary

Spec == Init /\ [][Next]_vars
\* ------------------------------------------------ wot/graphics/plot.py
\* the data frames of the model: the rows of each series, in any order
SeriesRows(name) ==
    UNION {[1..n -> [name : {name}, interval_mid : MidVals]] : n \in 0..MaxPoints}
DataFrames == {(a \o b) \o c : a \in SeriesRows("I"), b \in SeriesRows("Rg"),
                                c \in SeriesRows("R")}

\* df.sort_values('interval_mid')
RECURSIVE Insert(_, _)
Insert(row, sorted) ==
    IF sorted = <<>> \/ row.interval_mid < Head(sorted).interval_mid
    THEN <<row>> \o sorted
    ELSE <<Head(sorted)>> \o Insert(row, Tail(sorted))
RECURSIVE SortValues(_)
SortValues(frame) ==
    IF frame = <<>> THEN <<>>
    ELSE Insert(frame[Len(frame)], SortValues(SubSeq(frame, 1, Len(frame) - 1)))

\* df[df['name'] == name]['interval_mid'].values
IntervalMids(frame, name) ==
    LET rows == SelectSeq(frame, LAMBDA r : r.name = name)
    IN  [i \in 1..Len(rows) |-> rows[i].interval_mid]

\* numpy's elementwise operators on two one-dimensional arrays: the shapes must be
\* equal, or one of them 1 (it is then repeated); anything else raises
Broadcastable(a, b) == Len(a) = Len(b) \/ Len(a) = 1 \/ Len(b) = 1
BroadcastLen(a, b) ==
    IF Len(a) = Len(b) THEN Len(a) ELSE IF Len(a) = 1 THEN Len(b) ELSE Len(a)
At(a, i) == IF Len(a) = 1 THEN a[1] ELSE a[i]
\* (a - b).sum()
DiffSum(a, b) ==
    LET D == 1..BroadcastLen(a, b)
    IN  SumOver(D, [i \in D |-> At(a, i) - At(b, i)])

\* lines 60 and 62: the test that the time points of two series are aligned
NotAligned(a, b) == DiffSum(a, b) # 0

PlotInit ==
    /\ df \in DataFrames
    /\ plot_pc = "call"
    /\ plot_error = "none"
    /\ ratios_computed = FALSE
    /\ figure_saved = FALSE

ScriptIdle ==
    /\ args = [solver |-> [value |-> "fixed", interned |-> FALSE], compress |-> FALSE,
               cluster_details |-> FALSE, verbose |-> FALSE, clusters |-> "None",
               prefix |-> "out"]
    /\ cluster_file = <<>>
    /\ pc = "idle"
    /\ params_writer = "None"
    /\ params_file = <<>>
    /\ writer_log = <<>>
    /\ clusters = [index |-> <<>>, cluster |-> <<>>]
    /\ grouped_by_cluster = <<>>
    /\ cluster_ids = <<>>
    /\ total_cluster_size = <<>>
    /\ cluster_transport_maps = <<>>
    /\ column_cell_ids_by_time = <<>>
    /\ all_cell_ids = {}
    /\ pair = 1
    /\ failures = 0
    /\ invocations = <<>>
    /\ csv_files = <<>>
    /\ stdout = <<>>
    /\ weights_calls = <<>>
    /\ combiner_calls = <<>>

\* lines 54-63: sort, select the three series, test their alignment
PlotCheckAligned ==
    /\ plot_pc = "call"
    /\ LET sorted == SortValues(df)
           interpolated == IntervalMids(sorted, "I")
           null_growth == IntervalMids(sorted, "Rg")
           null_no_growth == IntervalMids(sorted, "R")
       IN  IF ~Broadcastable(interpolated, null_growth)
           THEN plot_pc' = "raised" /\ plot_error' = "operands could not be broadcast"
           ELSE IF NotAligned(interpolated, null_growth)
           THEN plot_pc' = "raised" /\ plot_error' = "Timepoints are not aligned"
           ELSE IF ~Broadcastable(interpolated, null_no_growth)
           THEN plot_pc' = "raised" /\ plot_error' = "operands could not be broadcast"
           ELSE IF NotAligned(interpolated, null_no_growth)
           THEN plot_pc' = "raised" /\ plot_error' = "Timepoints are not aligned"
           ELSE plot_pc' = "checked" /\ plot_error' = plot_error
    /\ UNCHANGED <<df, ratios_computed, figure_saved, scriptVars>>

\* lines 65-79: the two ratio series (arrays of the broadcast length) are computed
\* and plotted against the interpolated time points; plt.plot raises when its x and
\* y differ in length; the figure is saved last
PlotRatiosAndSave ==
    /\ plot_pc = "checked"
    /\ ratios_computed' = TRUE
    /\ LET sorted == SortValues(df)
           interpolated == IntervalMids(sorted, "I")
           null_growth == IntervalMids(sorted, "Rg")
           null_no_growth == IntervalMids(sorted, "R")
       IN  IF \/ Len(interpolated) # BroadcastLen(interpolated, null_growth)
              \/ Len(interpolated) # BroadcastLen(interpolated, null_no_growth)
           THEN /\ plot_pc' = "raised"
                /\ plot_error' = "x and y must have same first dimension"
                /\ figure_saved' = figure_saved
           ELSE /\ plot_pc' = "saved"
                /\ plot_error' = plot_error
                /\ figure_saved' = TRUE
    /\ UNCHANGED <<df, scriptVars>>

PlotNext ==
    \/ PlotCheckAligned
    \/ PlotRatiosAndSave

PlotSpecInit == PlotInit /\ ScriptIdle

PlotSpec == PlotSpecInit /\ [][PlotNext]_vars
\* ------------------------------------------------------------------ claims
\* the to_csv calls by the kind of file their name says
CellFiles == SelectSeq(csv_files, LAMBDA f : f.name[2] = "_")
ClusterMapFiles == SelectSeq(csv_files, LAMBDA f : f.name[2] = "_cluster_")
SummaryFiles == SelectSeq(csv_files, LAMBDA f : f.name[2] = "_cluster_summary.txt")
NamesOf(files) == [i \in 1..Len(files) |-> files[i].name]
Suffix == IF args.compress THEN <<".gz">> ELSE <<>>
PastOpen == pc \notin {"idle", "open_params"}
PastLoad == pc \notin {"idle", "open_params", "load_clusters"}
DriverReturned == pc \in {"close_params", "summary", "done"}
\* some cell id is in only one of the cluster file and the expression table
Misaligned == DOMAIN cluster_file # GeneCells

\* C1: when the run is configured with the floating_epsilon solver mode, the audit
\* file is opened with one header row before solving and, after N callback
\* invocations, holds exactly N data rows, the i-th being the i-th invocation's
\* t0, t1 and its result's epsilon, lambda1, lambda2.
C1_AuditFileWhenFloatingEpsilon ==
    (args.solver.value = "floating_epsilon" /\ PastOpen) =>
        /\ params_writer # "None"
        /\ params_file = <<ParamsHeader>>
               \o [i \in 1..Len(invocations) |-> ParamsRow(invocations[i])]

\* C2, as claimed: with clustering requested, every callback invocation writes one
\* cluster-level transport-map file for its pair, and exactly one combined summary
\* file is written once all pairs are done, whatever the other options are.
C2_ClusterFilePerPairAlways ==
    args.clusters # "None" =>
        /\ NamesOf(ClusterMapFiles) =
               [i \in 1..Len(invocations) |->
                   <<args.prefix, "_cluster_", ToString(invocations[i].t0), "_",
                     ToString(invocations[i].t1), ".txt">> \o Suffix]
        /\ Len(SummaryFiles) = IF pc = "done" THEN 1 ELSE 0

\* C2, amended: with clustering requested, every callback invocation writes one
\* cluster-level transport-map file for its pair if the cluster_details option is
\* set and none if it is not; exactly one combined summary file is written, after
\* the driver has returned.
C2_ClusterFilePerPairWhenDetails ==
    args.clusters # "None" =>
        /\ NamesOf(ClusterMapFiles) =
               IF args.cluster_details
               THEN [i \in 1..Len(invocations) |->
                        <<args.prefix, "_cluster_", ToString(invocations[i].t0), "_",
                          ToString(invocations[i].t1), ".txt">> \o Suffix]
               ELSE <<>>
        /\ \A i \in 1..Len(ClusterMapFiles) :
               /\ ClusterMapFiles[i].index = cluster_ids
               /\ ClusterMapFiles[i].columns = cluster_ids
        /\ Len(SummaryFiles) = IF pc = "done" THEN 1 ELSE 0
        /\ pc = "done" => csv_files[Len(csv_files)].name =
               <<args.prefix, "_cluster_summary.txt">> \o Suffix

C2_Witness ==
    /\ pc = "done"
    /\ args.clusters # "None"
    /\ args.cluster_details
    /\ Len(invocations) = NumPairs
    /\ Len(ClusterMapFiles) = NumPairs
    /\ Len(SummaryFiles) = 1

\* C3: every callback invocation writes exactly one cell-level transport-map file,
\* named prefix_t0_t1.txt, with a ".gz" suffix if and only if compression is
\* requested, its rows labelled by the ids of p0 and its columns by the ids of p1,
\* whether or not clustering is requested and whichever the solver mode.
C3_CellFilePerInvocation ==
    /\ Len(CellFiles) = Len(invocations)
    /\ \A i \in 1..Len(CellFiles) :
           /\ CellFiles[i].name =
                  <<args.prefix, "_", ToString(invocations[i].t0), "_",
                    ToString(invocations[i].t1), ".txt">> \o Suffix
           /\ CellFiles[i].index = invocations[i].p0.index
           /\ CellFiles[i].columns = invocations[i].p1.index

C3_Witness ==
    /\ pc = "done"
    /\ Len(invocations) = NumPairs
    /\ Len(CellFiles) = NumPairs
    /\ ~args.compress
    /\ args.clusters # "None"
    /\ args.solver.value = "floating_epsilon"

\* C4: plot_ot_validation_ratio raises an error, and neither computes the ratios
\* nor saves a figure, whenever the sorted interval_mid values of the interpolated
\* series do not match position by position those of the null-with-growth series
\* or those of the null-no-growth series.
C4_MisalignedSeriesRaise ==
    LET sorted == SortValues(df)
        interpolated == IntervalMids(sorted, "I")
    IN  ( /\ plot_pc \in {"checked", "raised", "saved"}
          /\ \/ interpolated # IntervalMids(sorted, "Rg")
             \/ interpolated # IntervalMids(sorted, "R") )
        => (plot_pc = "raised" /\ ~ratios_computed /\ ~figure_saved)

\* C5, as claimed: if some cell id is in only one of the cluster table and the
\* expression table, the run stops before the driver is started: no callback is
\* invoked and no transport map is written.
C5_MisalignedStopsBeforeDriver ==
    (args.clusters # "None" /\ Misaligned) =>
        /\ ~PastLoad
        /\ invocations = <<>>
        /\ csv_files = <<>>

\* C5, amended: if some cell id is in only one of the cluster table and the
\* expression table, no error is raised: the table is reindexed to exactly the
\* expression table's cell ids, the driver is started, and every pair is processed
\* and every invocation's transport map written as for an aligned table.
C5_MisalignedIsReindexed ==
    (args.clusters # "None" /\ Misaligned /\ PastLoad) =>
        /\ pc # "crashed"
        /\ clusters.index = GeneExpressionIndex
        /\ DOMAIN clusters.cluster = GeneCells
        /\ DriverReturned =>
               /\ Len(invocations) + failures = NumPairs
               /\ Len(CellFiles) = Len(invocations)

C5_Witness ==
    /\ pc = "done"
    /\ args.clusters # "None"
    /\ GeneCells \ DOMAIN cluster_file # {}
    /\ DOMAIN cluster_file \ GeneCells # {}
    /\ Len(invocations) = NumPairs
    /\ Len(CellFiles) = NumPairs

\* C6: a cell of the expression table with no row in the cluster table gets a
\* missing cluster value, belongs to no group and adds no entry to cluster_ids, and
\* no cluster-level map counts its mass; a cell of the cluster table that is not
\* in the expression table is dropped by the alignment.
C6_UnassignedCellsExcluded ==
    (args.clusters # "None" /\ PastLoad) =>
        LET assigned == DOMAIN cluster_file \cap GeneCells
            members(k) == {c \in assigned : cluster_file[c] = k}
        IN  /\ \A c \in GeneCells \ DOMAIN cluster_file :
                   /\ clusters.cluster[c] = NaN
                   /\ \A k \in DOMAIN grouped_by_cluster : c \notin grouped_by_cluster[k]
            /\ \A c \in DOMAIN cluster_file \ GeneCells :
                   /\ c \notin Range(clusters.index)
                   /\ \A k \in DOMAIN grouped_by_cluster : c \notin grouped_by_cluster[k]
            /\ Range(cluster_ids) = {cluster_file[c] : c \in assigned}
            /\ Len(cluster_ids) = Cardinality(Range(cluster_ids))
            /\ \A i \in 1..Len(cluster_transport_maps) :
                   \A a \in Range(cluster_ids), b \in Range(cluster_ids) :
                       cluster_transport_maps[i].values[a, b] =
                           SumOver((members(a) \cap Range(invocations[i].p0.index)) \X
                                   (members(b) \cap Range(invocations[i].p1.index)),
                                   TransportMap(invocations[i]).values)

C6_Witness ==
    /\ pc = "done"
    /\ args.clusters # "None"
    /\ GeneCells \ DOMAIN cluster_file # {}
    /\ DOMAIN cluster_file \ GeneCells # {}
    /\ Len(cluster_ids) = 2
    /\ Len(cluster_transport_maps) = NumPairs

\* C7, as claimed: both outputs of the weight aggregator, cluster_weights_by_time
\* and total_cluster_size, are passed to the temporal combiner.
C7_BothOutputsPassedToCombiner ==
    \A i \in 1..Len(combiner_calls) :
        {"cluster_weights_by_time", "total_cluster_size"}
            \subseteq Range(combiner_calls[i].names)

\* C7, amended: the temporal combiner is passed cluster_transport_maps and, of the
\* two, only cluster_weights_by_time, taken from the result of get_weights;
\* total_cluster_size is computed when the cluster table is loaded and is not
\* passed to the combiner.
C7_OnlyWeightsPassedToCombiner ==
    /\ \A i \in 1..Len(combiner_calls) :
           /\ combiner_calls[i].names =
                  <<"cluster_transport_maps", "cluster_weights_by_time">>
           /\ combiner_calls[i].maps = cluster_transport_maps
           /\ combiner_calls[i].weights =
                  weights_calls[i].result.cluster_weights_by_time
    /\ (args.clusters # "None" /\ PastLoad) => Len(total_cluster_size) = 1
    /\ args.clusters = "None" => total_cluster_size = <<>>

C7_Witness ==
    /\ Len(combiner_calls) = 1
    /\ Len(combiner_calls[1].maps) = NumPairs
    /\ Len(total_cluster_size) = 1

\* C8: with clustering requested, get_weights and transport_maps_by_time are each
\* called exactly once per run, only after the driver has returned, on the
\* accumulated sequence of all the pairs' maps; with clustering not requested
\* neither is ever called.
C8_WeightsAndCombinerOnceAfterDriver ==
    /\ args.clusters = "None" => (weights_calls = <<>> /\ combiner_calls = <<>>)
    /\ (args.clusters # "None" /\ pc # "done") =>
           (weights_calls = <<>> /\ combiner_calls = <<>>)
    /\ (args.clusters # "None" /\ pc = "done") =>
           /\ Len(weights_calls) = 1
           /\ Len(combiner_calls) = 1
           /\ pair = NumPairs + 1
           /\ Len(invocations) + failures = NumPairs
           /\ weights_calls[1].column_cell_ids_by_time =
                  [i \in 1..Len(invocations) |-> invocations[i].p1.index]
           /\ weights_calls[1].all_cell_ids =
                  UNION {Range(invocations[i].p0.index) \cup Range(invocations[i].p1.index) :
                         i \in 1..Len(invocations)}
           /\ combiner_calls[1].maps =
                  [i \in 1..Len(invocations) |->
                      transport_map_by_cluster(TransportMap(invocations[i]),
                                               grouped_by_cluster, cluster_ids)]

C8_Witness ==
    /\ pc = "done"
    /\ args.clusters # "None"
    /\ Len(invocations) = NumPairs
    /\ Len(weights_calls) = 1
    /\ Len(combiner_calls) = 1

\* C9: the accumulators start empty; after k callback invocations with clustering
\* requested, cluster_transport_maps and column_cell_ids_by_time have length k,
\* their i-th entries come from the i-th invocation, and all_cell_ids is the union
\* of the row and column cell ids of the k transport maps; with clustering not
\* requested the three stay empty.
C9_AccumulatorsFollowInvocations ==
    LET k == Len(invocations)
    IN  /\ args.clusters # "None" =>
               /\ Len(cluster_transport_maps) = k
               /\ Len(column_cell_ids_by_time) = k
               /\ \A i \in 1..k :
                      /\ column_cell_ids_by_time[i] = invocations[i].p1.index
                      /\ cluster_transport_maps[i] =
                             transport_map_by_cluster(TransportMap(invocations[i]),
                                                      grouped_by_cluster, cluster_ids)
               /\ all_cell_ids =
                      UNION {Range(invocations[i].p0.index)
                                 \cup Range(invocations[i].p1.index) : i \in 1..k}
        /\ args.clusters = "None" =>
               /\ cluster_transport_maps = <<>>
               /\ column_cell_ids_by_time = <<>>
               /\ all_cell_ids = {}

C9_Witness ==
    /\ args.clusters # "None"
    /\ Len(invocations) = NumPairs
    /\ Len(cluster_transport_maps) = NumPairs
    /\ Cardinality(all_cell_ids) = NumTimes * CellsPerTime

\* C10: the audit writer is used only while it is open: it is opened before the
\* first callback exactly when the test for floating_epsilon succeeds, every
\* callback invocation writes one row exactly when the same test succeeds (never
\* to an absent writer), it is closed exactly once, after the driver has returned,
\* if and only if it was opened, and nothing is written after the close.
C10_WriterUsedOnlyWhileOpen ==
    /\ pc # "crashed"
    /\ PastOpen => (params_writer # "None" <=> SolverTestAtOpen)
    /\ params_writer = "closed" <=> (SolverTestAtOpen /\ pc \in {"summary", "done"})
    /\ writer_log =
           IF SolverTestAtOpen /\ PastOpen
           THEN (<<"open", "write">> \o [i \in 1..Len(invocations) |-> "write"])
                \o (IF pc \in {"summary", "done"} THEN <<"close">> ELSE <<>>)
           ELSE <<>>
    /\ Len(params_file) =
           IF SolverTestAtOpen /\ PastOpen THEN 1 + Len(invocations) ELSE 0

C10_Witness ==
    /\ params_writer = "closed"
    /\ Len(invocations) = NumPairs
    /\ writer_log[Len(writer_log)] = "close"
    /\ Len(params_file) = NumPairs + 1
====
